---- MODULE Spec2Model ----
(***************************************************************************)
(* sync.py: re-sync two filtered paired-end FASTQ files against one of the  *)
(* original read files.  A text line is a sequence of characters without    *)
(* its line terminator; a file is a sequence of lines; a file handle is a   *)
(* file together with the number of lines already consumed from it.         *)
(***************************************************************************)
EXTENDS Integers, Sequences, FiniteSets, TLC

(* bounds of the explored inputs: records in the original file and in    *)
(* each filtered file; the runs with I/O failures use shorter files      *)
MaxRef == 3
MaxCand == 2
MaxRefIO == 2
MaxCandIO == 1

(* ---------------------------------------------------------------------- *)
(* text helpers: str.strip(), str.split(' ')[0], '\n'.join + print          *)
(* ---------------------------------------------------------------------- *)

Whitespace == {" ", "TAB", "CR"}

RECURSIVE lstrip(_)
lstrip(s) ==
  IF s = <<>> THEN <<>>
  ELSE IF Head(s) \in Whitespace THEN lstrip(Tail(s)) ELSE s

RECURSIVE rstrip(_)
rstrip(s) ==
  IF s = <<>> THEN <<>>
  ELSE IF s[Len(s)] \in Whitespace THEN rstrip(SubSeq(s, 1, Len(s) - 1)) ELSE s

strip(s) == rstrip(lstrip(s))

(* s.split(' ')[0]: the characters before the first space *)
RECURSIVE split0(_)
split0(s) ==
  IF s = <<>> THEN <<>>
  ELSE IF Head(s) = " " THEN <<>> ELSE <<Head(s)>> \o split0(Tail(s))

(* fh.readline() at position pos (lines consumed so far): the next line,   *)
(* or the empty string at end of file                                       *)
readline(file, pos) == IF pos < Len(file) THEN file[pos + 1] ELSE <<>>

(* next_record(fh): four readline().strip() *)
next_record(file, pos) == [i \in 1..4 |-> strip(readline(file, pos + i - 1))]

(* the handle's position after next_record *)
Min(x, y) == IF x < y THEN x ELSE y
after_record(file, pos) == Min(pos + 4, Len(file))

head(record) == split0(record[1])

(* the generator without its `if not (i % 4)`: every line is a header *)
NextHeaderIndexEveryLine(pos) == pos

(* the headers generator: the lines with i % 4 = 0 of enumerate(original); *)
(* pos lines have been consumed, the next header is the first line at an   *)
(* index >= pos that is a multiple of 4                                    *)
NextHeaderIndex(pos) == IF pos % 4 = 0 THEN pos ELSE pos + (4 - (pos % 4))
HasHeader(file, pos) == NextHeaderIndex(pos) < Len(file)
HeaderAt(file, pos) == split0(strip(file[NextHeaderIndex(pos) + 1]))

(* print('\n'.join(record), file=fh): the record's four lines are appended *)
print_record(out, record) == out \o record

(* ---------------------------------------------------------------------- *)
(* input files                                                             *)
(* ---------------------------------------------------------------------- *)

SeqsUpTo(S, n) == UNION {[1..k -> S] : k \in 0..n}

RECURSIVE Flatten(_)
Flatten(recs) == IF recs = <<>> THEN <<>> ELSE Head(recs) \o Flatten(Tail(recs))

Blank == <<>>
Names == {<<"p">>, <<"q">>, <<"r">>}

(* a record of the original file: new style and old style headers, a CRLF *)
(* header, and a blank line where a header is expected                    *)
RefRecord(id) ==
  << IF id = Blank THEN Blank
     ELSE IF id = <<"p">> THEN id \o <<" ", "1">>
     ELSE IF id = <<"q">> THEN id
     ELSE id \o <<"CR">>,
     <<"N">>, <<"+">>, <<"#">> >>

(* records of the two filtered files (the second one with CRLF lines) *)
RecordA(id) ==
  << IF id = Blank THEN Blank ELSE id \o <<" ", "1">>, <<"A">>, <<"+">>, <<"I">> >>
RecordB(id) ==
  << IF id = Blank THEN <<"CR">> ELSE id \o <<" ", "2", "CR">>,
     <<"C", "CR">>, <<"+", "CR">>, <<"J", "CR">> >>

(* identifiers are only ever compared for equality, so the original file's *)
(* names are taken in the order p, q, r of their first occurrence          *)
FirstUse(ids) ==
  \A i \in DOMAIN ids :
    /\ ids[i] = <<"q">> => \E j \in 1..(i - 1) : ids[j] = <<"p">>
    /\ ids[i] = <<"r">> => \E j \in 1..(i - 1) : ids[j] = <<"q">>

RefIdSeqs(n) == { ids \in SeqsUpTo(Names \cup {Blank}, n) : FirstUse(ids) }

(* a filtered file: named records, possibly ending in a record whose      *)
(* header line is blank                                                    *)
CandIdSeqs(n) ==
  SeqsUpTo(Names, n) \cup { Append(ids, Blank) : ids \in SeqsUpTo(Names, n - 1) }

RefFiles(n) == { Flatten([i \in DOMAIN ids |-> RefRecord(ids[i])]) : ids \in RefIdSeqs(n) }
FilesA(n) == { Flatten([i \in DOMAIN ids |-> RecordA(ids[i])]) : ids \in CandIdSeqs(n) }
FilesB(n) == { Flatten([i \in DOMAIN ids |-> RecordB(ids[i])]) : ids \in CandIdSeqs(n) }

(* ---------------------------------------------------------------------- *)
(* state                                                                   *)
(* ---------------------------------------------------------------------- *)

VARIABLES
  pc,            \* "start", "opened", "loop", "exit"
  argc,          \* len(sys.argv)
  opened,        \* the files opened so far, in order
  original, reads_a, reads_b,     \* contents of the three input files
  pos_o, pos_a, pos_b,            \* lines consumed from each input handle
  a, b,                           \* the pending records
  total_a, total_b, kept, orphaned_a, orphaned_b,
  synced_a, synced_b, orphans,    \* lines printed to the three output handles
  stdout, stderr,                 \* lines printed to the standard and error streams
  status,                         \* <<>> while running, <<code>> once exited
  io_error,                       \* "none", or the kind of I/O failure met
  header, fired,                  \* last reference identifier and the branches it took
  pulls_a, pulls_b                \* number of next_record calls per candidate

inputs == << original, reads_a, reads_b >>
handles == << pos_o, pos_a, pos_b >>
cursors == << a, b, pulls_a, pulls_b >>
counters == << total_a, total_b, kept, orphaned_a, orphaned_b >>
outputs == << synced_a, synced_b, orphans >>
console == << stdout, stderr, status >>
trace == << header, fired >>

vars == << pc, argc, opened, inputs, handles, cursors, counters, outputs,
           console, io_error, trace >>

NoRecord == <<>>

Init ==
  /\ pc = "start"
  /\ argc \in 1..7
  /\ opened = <<>>
  /\ original = <<>> /\ reads_a = <<>> /\ reads_b = <<>>
  /\ pos_o = 0 /\ pos_a = 0 /\ pos_b = 0
  /\ a = NoRecord /\ b = NoRecord
  /\ total_a = 0 /\ total_b = 0 /\ kept = 0 /\ orphaned_a = 0 /\ orphaned_b = 0
  /\ synced_a = <<>> /\ synced_b = <<>> /\ orphans = <<>>
  /\ stdout = <<>> /\ stderr = <<>> /\ status = <<>>
  /\ io_error = "none"
  /\ header = <<>> /\ fired = <<>>
  /\ pulls_a = 0 /\ pulls_b = 0

(* ---------------------------------------------------------------------- *)
(* __main__                                                                *)
(* ---------------------------------------------------------------------- *)

(* the argument test off by one *)
TooFewArgumentsOffByOne(n) == n < 6

(* len(sys.argv) < 7 *)
TooFewArguments(n) == n < 7

(* fewer than 6 positional arguments: usage text on stderr, sys.exit(1) *)
Usage ==
  /\ pc = "start"
  /\ TooFewArguments(argc)
  /\ stderr' = Append(stderr, "usage")
  /\ status' = <<1>>
  /\ pc' = "exit"
  /\ UNCHANGED << argc, opened, inputs, handles, cursors, counters, outputs,
                  stdout, io_error, trace >>

(* the six _open calls, in program order *)
OpenOrder == << "original", "reads_a", "reads_b", "synced_a", "synced_b", "orphans" >>

(* the six _open calls succeed; the contents of the input files are       *)
(* whatever the file system holds (at most nref and ncand records), the   *)
(* outputs are opened for writing and start empty                         *)
OpenFiles(nref, ncand) ==
  /\ pc = "start"
  /\ ~TooFewArguments(argc)
  /\ opened' = OpenOrder
  /\ original' \in RefFiles(nref)
  /\ reads_a' \in FilesA(ncand)
  /\ reads_b' \in FilesB(ncand)
  /\ pos_o' = 0 /\ pos_a' = 0 /\ pos_b' = 0
  /\ synced_a' = <<>> /\ synced_b' = <<>> /\ orphans' = <<>>
  /\ pc' = "opened"
  /\ UNCHANGED << argc, cursors, counters, console, io_error, trace >>

Open == OpenFiles(MaxRef, MaxCand)

(* ---------------------------------------------------------------------- *)
(* sync_paired_end_reads                                                   *)
(* ---------------------------------------------------------------------- *)

(* entry: the counters are zeroed and both cursors take their first record *)
Begin ==
  /\ pc = "opened"
  /\ total_a' = 0 /\ total_b' = 0 /\ kept' = 0
  /\ orphaned_a' = 0 /\ orphaned_b' = 0
  /\ a' = next_record(reads_a, pos_a)
  /\ pos_a' = after_record(reads_a, pos_a)
  /\ b' = next_record(reads_b, pos_b)
  /\ pos_b' = after_record(reads_b, pos_b)
  /\ pulls_a' = pulls_a + 1 /\ pulls_b' = pulls_b + 1
  /\ pc' = "loop"
  /\ UNCHANGED << argc, opened, inputs, pos_o, outputs, console, io_error, trace >>

(* the function's locals and the handles it reads and writes *)
Cur ==
  [ a |-> a, b |-> b, pos_a |-> pos_a, pos_b |-> pos_b,
    total_a |-> total_a, total_b |-> total_b, kept |-> kept,
    orphaned_a |-> orphaned_a, orphaned_b |-> orphaned_b,
    synced_a |-> synced_a, synced_b |-> synced_b, orphans |-> orphans,
    fired |-> <<>>, pulls_a |-> pulls_a, pulls_b |-> pulls_b ]

(* the third test comparing the header with cursor b only *)
TestKeepOnlyB(h, ca, cb) == h = head(cb)

(* the third test comparing the two cursors but not the header *)
TestKeepNoHeader(h, ca, cb) == head(ca) = head(cb)

(* the first test leaving a in place once cursor b is at end of file *)
TestAWhileBLasts(h, ca, cb) == h = head(ca) /\ h # head(cb) /\ head(cb) # Blank

(* the first test without its comparison against cursor b *)
TestAOnlyA(h, ca, cb) == h = head(ca)

(* the conditions of the three ifs *)
TestA(h, ca, cb) == h = head(ca) /\ h # head(cb)
TestB(h, ca, cb) == h = head(cb) /\ h # head(ca)
TestKeep(h, ca, cb) == h = head(ca) /\ head(ca) = head(cb)

(* the first body printing after it has replaced the cursor *)
OrphanAPrintsNext(s) ==
  [s EXCEPT !.orphans = print_record(@, next_record(reads_a, s.pos_a)),
            !.a = next_record(reads_a, s.pos_a),
            !.pos_a = after_record(reads_a, s.pos_a),
            !.pulls_a = @ + 1,
            !.orphaned_a = @ + 1,
            !.total_a = @ + 1,
            !.fired = Append(@, "orphan_a")]

(* the first body without its orphaned_a += 1 *)
OrphanANoCount(s) ==
  [s EXCEPT !.orphans = print_record(@, s.a),
            !.a = next_record(reads_a, s.pos_a),
            !.pos_a = after_record(reads_a, s.pos_a),
            !.pulls_a = @ + 1,
            !.total_a = @ + 1,
            !.fired = Append(@, "orphan_a")]

(* body of the first if: a goes to the orphans *)
OrphanA(s) ==
  [s EXCEPT !.orphans = print_record(@, s.a),
            !.a = next_record(reads_a, s.pos_a),
            !.pos_a = after_record(reads_a, s.pos_a),
            !.pulls_a = @ + 1,
            !.orphaned_a = @ + 1,
            !.total_a = @ + 1,
            !.fired = Append(@, "orphan_a")]

(* the second body reading two records ahead *)
OrphanBSkips(s) ==
  [s EXCEPT !.orphans = print_record(@, s.b),
            !.b = next_record(reads_b, after_record(reads_b, s.pos_b)),
            !.pos_b = after_record(reads_b, after_record(reads_b, s.pos_b)),
            !.pulls_b = @ + 2,
            !.orphaned_b = @ + 1,
            !.total_b = @ + 1,
            !.fired = Append(@, "orphan_b")]

(* body of the second if: b goes to the orphans *)
OrphanB(s) ==
  [s EXCEPT !.orphans = print_record(@, s.b),
            !.b = next_record(reads_b, s.pos_b),
            !.pos_b = after_record(reads_b, s.pos_b),
            !.pulls_b = @ + 1,
            !.orphaned_b = @ + 1,
            !.total_b = @ + 1,
            !.fired = Append(@, "orphan_b")]

(* the third body without its total_b += 1 *)
KeepNoTotalB(s) ==
  [s EXCEPT !.synced_a = print_record(@, s.a),
            !.synced_b = print_record(@, s.b),
            !.a = next_record(reads_a, s.pos_a),
            !.pos_a = after_record(reads_a, s.pos_a),
            !.b = next_record(reads_b, s.pos_b),
            !.pos_b = after_record(reads_b, s.pos_b),
            !.pulls_a = @ + 1,
            !.pulls_b = @ + 1,
            !.kept = @ + 1,
            !.total_a = @ + 1,
            !.fired = Append(@, "keep")]

(* the third body leaving cursor b on the record it has just written *)
KeepStaleB(s) ==
  [s EXCEPT !.synced_a = print_record(@, s.a),
            !.synced_b = print_record(@, s.b),
            !.a = next_record(reads_a, s.pos_a),
            !.pos_a = after_record(reads_a, s.pos_a),
            !.pulls_a = @ + 1,
            !.kept = @ + 1,
            !.total_a = @ + 1,
            !.total_b = @ + 1,
            !.fired = Append(@, "keep")]

(* body of the third if: both are kept *)
Keep(s) ==
  [s EXCEPT !.synced_a = print_record(@, s.a),
            !.synced_b = print_record(@, s.b),
            !.a = next_record(reads_a, s.pos_a),
            !.pos_a = after_record(reads_a, s.pos_a),
            !.b = next_record(reads_b, s.pos_b),
            !.pos_b = after_record(reads_b, s.pos_b),
            !.pulls_a = @ + 1,
            !.pulls_b = @ + 1,
            !.kept = @ + 1,
            !.total_a = @ + 1,
            !.total_b = @ + 1,
            !.fired = Append(@, "keep")]

(* the loop body: the three ifs in program order, each test reading the   *)
(* cursors as the ifs before it left them                                  *)
Iteration(h, s) ==
  LET s1 == IF TestA(h, s.a, s.b) THEN OrphanA(s) ELSE s
      s2 == IF TestB(h, s1.a, s1.b) THEN OrphanB(s1) ELSE s1
  IN  IF TestKeep(h, s2.a, s2.b) THEN Keep(s2) ELSE s2

(* one iteration of `for header in headers` *)
Step ==
  /\ pc = "loop"
  /\ HasHeader(original, pos_o)
  /\ \E h \in {HeaderAt(original, pos_o)} :
     \E s \in {Iteration(h, Cur)} :
       /\ header' = h
       /\ pos_o' = NextHeaderIndex(pos_o) + 1
       /\ fired' = s.fired
       /\ a' = s.a /\ b' = s.b
       /\ pos_a' = s.pos_a /\ pos_b' = s.pos_b
       /\ pulls_a' = s.pulls_a /\ pulls_b' = s.pulls_b
       /\ total_a' = s.total_a /\ total_b' = s.total_b
       /\ kept' = s.kept
       /\ orphaned_a' = s.orphaned_a /\ orphaned_b' = s.orphaned_b
       /\ synced_a' = s.synced_a /\ synced_b' = s.synced_b
       /\ orphans' = s.orphans
  /\ UNCHANGED << pc, argc, opened, inputs, console, io_error >>

(* the headers generator is exhausted: the function returns the five      *)
(* counters, __main__ prints the five summary lines and the script ends    *)
Summary ==
  << <<"Total %i reads from forward read file.", total_a>>,
     <<"Total %i reads from reverse read file.", total_b>>,
     <<"Synced read files contain %i reads.", kept>>,
     <<"Put %i forward reads in the orphans file.", orphaned_a>>,
     <<"Put %i reverse reads in the orphans file.", orphaned_b>> >>

Finish ==
  /\ pc = "loop"
  /\ ~HasHeader(original, pos_o)
  /\ pos_o' = Len(original)
  /\ stdout' = stdout \o Summary
  /\ status' = <<0>>
  /\ pc' = "exit"
  /\ UNCHANGED << argc, opened, inputs, pos_a, pos_b, cursors, counters,
                  outputs, stderr, io_error, trace >>

Next == Usage \/ Open \/ Begin \/ Step \/ Finish

(* the runs in which every open, read and write succeeds *)
Spec == Init /\ [][Next]_vars


(* ---------------------------------------------------------------------- *)
(* I/O failures                                                            *)
(* ---------------------------------------------------------------------- *)

(* what reaches stderr when an exception leaves the try block: the        *)
(* handler unpacks a two-element args; an IOError with other args (gzip's *)
(* BadGzipFile) fails in the handler, and an exception that is no IOError *)
(* is not caught: both end in a traceback                                 *)
ErrorReports == {"Error: %s", "Traceback"}

(* except IOError: message on stderr, sys.exit(1); an uncaught exception  *)
(* also ends the interpreter with status 1                                *)
Abort(kind) ==
  /\ io_error' = kind
  /\ \E report \in ErrorReports : stderr' = Append(stderr, report)
  /\ status' = <<1>>
  /\ pc' = "exit"

(* one of the six _open calls raises: the files before it are open *)
OpenFail ==
  /\ pc = "start"
  /\ ~TooFewArguments(argc)
  /\ \E n \in 0..5 : opened' = SubSeq(OpenOrder, 1, n)
  /\ Abort("open")
  /\ UNCHANGED << argc, inputs, handles, cursors, counters, outputs, stdout, trace >>

(* a readline of the two first next_record calls raises: nothing is      *)
(* assigned                                                               *)
BeginFail ==
  /\ pc = "opened"
  /\ Abort("read")
  /\ UNCHANGED << argc, opened, inputs, handles, cursors, counters, outputs,
                  stdout, trace >>

(* the locals and outputs when the k-th I/O call of a branch raises: the *)
(* prints before it have happened, the assignments after it have not     *)
OrphanAFail(s, k) ==
  IF k = 1 THEN s ELSE [s EXCEPT !.orphans = print_record(@, s.a)]
OrphanBFail(s, k) ==
  IF k = 1 THEN s ELSE [s EXCEPT !.orphans = print_record(@, s.b)]
KeepFail(s, k) ==
  IF k = 1 THEN s
  ELSE IF k = 2 THEN [s EXCEPT !.synced_a = print_record(@, s.a)]
  ELSE [s EXCEPT !.synced_a = print_record(@, s.a),
                 !.synced_b = print_record(@, s.b)]

(* where an iteration can stop on an I/O failure, and the failing call *)
IterationFail(h, s) ==
  LET s1 == IF TestA(h, s.a, s.b) THEN OrphanA(s) ELSE s
      s2 == IF TestB(h, s1.a, s1.b) THEN OrphanB(s1) ELSE s1
  IN  (IF TestA(h, s.a, s.b)
         THEN {<<OrphanAFail(s, 1), "write">>, <<OrphanAFail(s, 2), "read">>}
         ELSE {})
      \cup
      (IF TestB(h, s1.a, s1.b)
         THEN {<<OrphanBFail(s1, 1), "write">>, <<OrphanBFail(s1, 2), "read">>}
         ELSE {})
      \cup
      (IF TestKeep(h, s2.a, s2.b)
         THEN {<<KeepFail(s2, 1), "write">>, <<KeepFail(s2, 2), "write">>,
               <<KeepFail(s2, 3), "read">>, <<KeepFail(s2, 4), "read">>}
         ELSE {})

(* reading the next line of the original file raises *)
HeaderFail ==
  /\ pc = "loop"
  /\ Abort("read")
  /\ UNCHANGED << argc, opened, inputs, handles, cursors, counters, outputs,
                  stdout, trace >>

(* a print to an output handle or a readline inside an iteration raises *)
StepFail ==
  /\ pc = "loop"
  /\ HasHeader(original, pos_o)
  /\ \E h \in {HeaderAt(original, pos_o)} :
     \E f \in IterationFail(h, Cur) :
       /\ header' = h
       /\ fired' = f[1].fired
       /\ pos_o' = NextHeaderIndex(pos_o) + 1
       /\ synced_a' = f[1].synced_a /\ synced_b' = f[1].synced_b
       /\ orphans' = f[1].orphans
       /\ a' = f[1].a /\ b' = f[1].b
       /\ pos_a' = f[1].pos_a /\ pos_b' = f[1].pos_b
       /\ pulls_a' = f[1].pulls_a /\ pulls_b' = f[1].pulls_b
       /\ total_a' = f[1].total_a /\ total_b' = f[1].total_b
       /\ kept' = f[1].kept
       /\ orphaned_a' = f[1].orphaned_a /\ orphaned_b' = f[1].orphaned_b
       /\ Abort(f[2])
  /\ UNCHANGED << argc, opened, inputs, stdout >>

(* the output handles are buffered and the script never flushes or closes *)
(* them: what the prints left in a buffer is written when the interpreter *)
(* shuts down, after the summary; a write that fails there (a full        *)
(* device) raises nothing in the script                                   *)
FinishFlushFail ==
  /\ pc = "loop"
  /\ ~HasHeader(original, pos_o)
  /\ Len(synced_a) + Len(synced_b) + Len(orphans) > 0
  /\ pos_o' = Len(original)
  /\ stdout' = stdout \o Summary
  /\ status' = <<0>>
  /\ io_error' = "write"
  /\ pc' = "exit"
  /\ UNCHANGED << argc, opened, inputs, pos_a, pos_b, cursors, counters,
                  outputs, stderr, trace >>

OpenIO == OpenFiles(MaxRefIO, MaxCandIO)

NextIO ==
  \/ Usage \/ OpenIO \/ Begin \/ Step \/ Finish
  \/ OpenFail \/ BeginFail \/ HeaderFail \/ StepFail \/ FinishFlushFail

(* the runs in which I/O succeeds, on the shorter files, with the         *)
(* progress of a sequential script: the statement it has reached is       *)
(* executed                                                                *)
NextLive == Usage \/ OpenIO \/ Begin \/ Step \/ Finish

SpecLive == Init /\ [][NextLive]_vars /\ WF_vars(NextLive)

(* the runs in which an open, a read or a write may fail *)
SpecIO == Init /\ [][NextIO]_vars

(* ---------------------------------------------------------------------- *)
(* vocabulary of the properties                                            *)
(* ---------------------------------------------------------------------- *)

Range(s) == { s[i] : i \in DOMAIN s }
Distinct(s) == \A i, j \in DOMAIN s : s[i] = s[j] => i = j

RECURSIVE IsSubseq(_, _)
IsSubseq(s, t) ==
  IF s = <<>> THEN TRUE
  ELSE IF t = <<>> THEN FALSE
  ELSE IF Head(s) = Head(t) THEN IsSubseq(Tail(s), Tail(t))
  ELSE IsSubseq(s, Tail(t))

(* the records an input file holds, as the record reader delivers them *)
NumRecords(file) == (Len(file) + 3) \div 4
Records(file) == [k \in 1..NumRecords(file) |-> next_record(file, 4 * (k - 1))]
IdsOf(recs) == [k \in DOMAIN recs |-> head(recs[k])]
RefIds == [k \in 1..NumRecords(original) |-> split0(strip(original[4 * k - 3]))]
IdsA == IdsOf(Records(reads_a))
IdsB == IdsOf(Records(reads_b))

(* the records an output file holds *)
Written(out) == [k \in 1..(Len(out) \div 4) |-> SubSeq(out, 4 * k - 3, 4 * k)]
Count(r, recs) == Cardinality({k \in DOMAIN recs : recs[k] = r})
Restrict(recs, ids) == SelectSeq(recs, LAMBDA r : head(r) \in ids)

EmptyRecord == << <<>>, <<>>, <<>>, <<>> >>
InLoop == pc = "loop"
Returned == pc = "exit" /\ status = <<0>>
(* a cursor is terminal once next_record has been called at end of file *)
ExhaustedA == pulls_a > NumRecords(reads_a)
ExhaustedB == pulls_b > NumRecords(reads_b)
(* one reference identifier is processed *)
StepTaken == pc = "loop" /\ pc' = "loop" /\ pos_o' # pos_o
ThisHeader == HeaderAt(original, pos_o)
(* the step appends the record to the orphans *)
Orphaned(rec) ==
  \E k \in 0..1 :
    /\ Len(orphans') >= Len(orphans) + 4 * k + 4
    /\ SubSeq(orphans', Len(orphans) + 4 * k + 1, Len(orphans) + 4 * k + 4) = rec

(* ---------------------------------------------------------------------- *)
(* properties                                                              *)
(* ---------------------------------------------------------------------- *)

(* C1 Conservation: at every loop boundary and at return, whatever the    *)
(* three inputs, total_a = kept + orphaned_a and total_b = kept +         *)
(* orphaned_b.                                                            *)
C1_Conservation ==
  /\ total_a = kept + orphaned_a
  /\ total_b = kept + orphaned_b

C1_Witness ==
  Returned /\ kept >= 1 /\ orphaned_a >= 1 /\ orphaned_b >= 1

(* C2 Subsequence fidelity: when the reference identifiers are pairwise   *)
(* distinct and both candidates are subsequences of the reference, at     *)
(* return synced-A is candidate-A restricted to the identifiers of        *)
(* candidate-B, synced-B is candidate-B restricted to the identifiers of  *)
(* candidate-A, and kept, orphaned_a, orphaned_b are the sizes of the     *)
(* intersection and of the two differences of the identifier sets.        *)
C2_SubsequenceFidelity ==
  (Returned /\ Distinct(RefIds) /\ IsSubseq(IdsA, RefIds) /\ IsSubseq(IdsB, RefIds))
    => /\ Written(synced_a) = Restrict(Records(reads_a), Range(IdsB))
       /\ Written(synced_b) = Restrict(Records(reads_b), Range(IdsA))
       /\ kept = Cardinality(Range(IdsA) \cap Range(IdsB))
       /\ orphaned_a = Cardinality(Range(IdsA) \ Range(IdsB))
       /\ orphaned_b = Cardinality(Range(IdsB) \ Range(IdsA))

(* C3 Pair alignment: for every input, at every loop boundary and at      *)
(* return, synced-A and synced-B hold the same number of records and the  *)
(* records at the same output position have the same mate identifier.     *)
C3_PairAlignment ==
  /\ Len(synced_a) = Len(synced_b)
  /\ \A k \in DOMAIN Written(synced_a) :
       head(Written(synced_a)[k]) = head(Written(synced_b)[k])

C3_Witness ==
  /\ Len(synced_a) >= 8
  /\ ~Distinct(RefIds)
  /\ Written(synced_a)[1] # Written(synced_b)[1]

(* C4 Complete partition: when both candidates are subsequences of the    *)
(* reference, at return every record of candidate-A and candidate-B has   *)
(* been written to exactly one output (and nothing else has), both        *)
(* cursors are the terminal sentinel, and total_a, total_b are the        *)
(* numbers of records of the candidates.                                  *)
C4_CompletePartition ==
  (Returned /\ IsSubseq(IdsA, RefIds) /\ IsSubseq(IdsB, RefIds))
    => /\ \A r \in Range(Records(reads_a)) \cup Range(Records(reads_b))
                  \cup Range(Written(synced_a)) \cup Range(Written(synced_b))
                  \cup Range(Written(orphans)) :
            Count(r, Records(reads_a)) + Count(r, Records(reads_b))
              = Count(r, Written(synced_a)) + Count(r, Written(synced_b))
                  + Count(r, Written(orphans))
       /\ a = EmptyRecord /\ ExhaustedA
       /\ b = EmptyRecord /\ ExhaustedB
       /\ total_a = NumRecords(reads_a)
       /\ total_b = NumRecords(reads_b)

(* C5 Terminal sentinel never matches: once a candidate is exhausted,     *)
(* processing any further reference identifier does not advance its       *)
(* cursor, changes none of its counters and writes no record for it.      *)
C5_SentinelNeverMatches ==
  [][ StepTaken =>
        /\ ExhaustedA =>
             /\ pulls_a' = pulls_a
             /\ total_a' = total_a /\ orphaned_a' = orphaned_a /\ kept' = kept
             /\ synced_a' = synced_a
             /\ orphans' \in {orphans, print_record(orphans, b)}
        /\ ExhaustedB =>
             /\ pulls_b' = pulls_b
             /\ total_b' = total_b /\ orphaned_b' = orphaned_b /\ kept' = kept
             /\ synced_b' = synced_b
             /\ orphans' \in {orphans, print_record(orphans, a)}
    ]_vars

(* C6 Orphan completeness: processing a reference identifier writes the   *)
(* pending record of candidate-A to the orphans if and only if the        *)
(* identifier equals that record's identifier and cursor B's identifier   *)
(* differs from it or cursor B is terminal; symmetrically for B.          *)
C6_OrphanCompleteness ==
  [][ StepTaken =>
        /\ ~ExhaustedA =>
             (Orphaned(a) <=>
                (ThisHeader = head(a) /\ (ThisHeader # head(b) \/ ExhaustedB)))
        /\ ~ExhaustedB =>
             (Orphaned(b) <=>
                (ThisHeader = head(b) /\ (ThisHeader # head(a) \/ ExhaustedA)))
    ]_vars

(* C7 No-op rows: processing a reference identifier that equals neither   *)
(* cursor's identifier leaves both cursors, the five counters and the     *)
(* three outputs unchanged.                                               *)
C7_NoOpRows ==
  [][ (StepTaken /\ ThisHeader # head(a) /\ ThisHeader # head(b)) =>
        UNCHANGED << a, b, pos_a, pos_b, pulls_a, pulls_b,
                     total_a, total_b, kept, orphaned_a, orphaned_b,
                     synced_a, synced_b, orphans >>
    ]_vars

C7_Witness ==
  /\ InLoop /\ pos_o > 0 /\ fired = <<>>
  /\ ~ExhaustedA /\ ~ExhaustedB
  /\ header # head(a) /\ header # head(b)
  /\ header # Blank

(* C8 Structural anomaly is surfaced: when the function returns while     *)
(* cursor A or cursor B still holds a record of its file, the program     *)
(* reports something besides the five summary lines of a normal run.      *)
C8_AnomalySurfaced ==
  (Returned /\ (~ExhaustedA \/ ~ExhaustedB))
    => (stderr # <<>> \/ stdout # Summary)

(* C9 I/O failure aborts the run: once an open, a read or a write of one  *)
(* of the six files has failed, no summary line is printed, an error      *)
(* message is on stderr and the exit status is not zero.                  *)
C9_IOFailureAborts ==
  io_error # "none"
    => /\ pc = "exit"
       /\ stdout = <<>>
       /\ stderr # <<>>
       /\ status # <<>> /\ status # <<0>>

(* C10 Usage error: with fewer than 6 positional arguments no file is     *)
(* ever opened and no counter is ever printed, and the program ends with  *)
(* the usage text on stderr and a non-zero exit status.                   *)
C10_UsageError ==
  argc < 7
    => /\ opened = <<>>
       /\ stdout = <<>>
       /\ pc \in {"start", "exit"}
       /\ pc = "exit" => (stderr = <<"usage">> /\ status = <<1>>)

C10_Witness ==
  pc = "exit" /\ argc = 6 /\ stderr = <<"usage">> /\ status = <<1>>

(* C12 Exactly one classification: processing a reference identifier      *)
(* takes at most one of the three branches, and exactly one when the      *)
(* identifier equals cursor A's or cursor B's identifier at the start of  *)
(* the step; kept + orphaned_a + orphaned_b grows by the number of        *)
(* branches taken (at most 1); the five counters are zero at the first    *)
(* loop boundary and never decrease.                                      *)
C12_OneClassification ==
  [][ /\ StepTaken =>
           LET matched == ThisHeader = head(a) \/ ThisHeader = head(b)
               growth == (kept' + orphaned_a' + orphaned_b')
                           - (kept + orphaned_a + orphaned_b)
           IN  /\ Len(fired') <= 1
               /\ matched <=> Len(fired') = 1
               /\ growth = Len(fired')
      /\ (pc = "opened" /\ pc' = "loop") =>
           /\ total_a' = 0 /\ total_b' = 0 /\ kept' = 0
           /\ orphaned_a' = 0 /\ orphaned_b' = 0
      /\ total_a' >= total_a /\ total_b' >= total_b /\ kept' >= kept
      /\ orphaned_a' >= orphaned_a /\ orphaned_b' >= orphaned_b
    ]_vars

(* a candidate with the same identifier twice in a row: the cursor is    *)
(* replaced by a record that matches the identifier being processed      *)
C12_Witness ==
  /\ InLoop /\ fired = <<"orphan_a">>
  /\ header \in Names /\ head(a) = header /\ ~ExhaustedA

(* C13 Cursor advance rule: processing a reference identifier replaces a  *)
(* cursor by the next record of its file, with one next_record call, if   *)
(* the identifier equals the cursor's identifier at the start of the      *)
(* step, and leaves the cursor and its handle alone otherwise; a handle   *)
(* never moves backwards.                                                 *)
C13_CursorAdvance ==
  [][ /\ StepTaken =>
           /\ IF ThisHeader = head(a)
                THEN /\ a' = next_record(reads_a, pos_a)
                     /\ pos_a' = after_record(reads_a, pos_a)
                     /\ pulls_a' = pulls_a + 1
                ELSE UNCHANGED << a, pos_a, pulls_a >>
           /\ IF ThisHeader = head(b)
                THEN /\ b' = next_record(reads_b, pos_b)
                     /\ pos_b' = after_record(reads_b, pos_b)
                     /\ pulls_b' = pulls_b + 1
                ELSE UNCHANGED << b, pos_b, pulls_b >>
      /\ pos_a' >= pos_a /\ pos_b' >= pos_b
      /\ pulls_a' >= pulls_a /\ pulls_b' >= pulls_b
    ]_vars

(* one cursor has advanced twice, the other has not moved *)
C13_Witness ==
  /\ InLoop /\ pulls_a = 3 /\ pulls_b = 1
  /\ ~ExhaustedB /\ pos_a = 8 /\ pos_b = 4

(* the reference identifiers processed so far, from the generator's      *)
(* position in the original file                                          *)
StepsDone == (pos_o + 3) \div 4
Processed == SubSeq(RefIds, 1, StepsDone)

(* C14 Output ordering: for every input and at every moment, the          *)
(* identifiers of the records in synced-A, in synced-B and in orphans     *)
(* (orphans of A and of B together) each form, in output order, a         *)
(* subsequence of the reference identifiers processed so far.             *)
C14_OutputOrdering ==
  /\ IsSubseq(IdsOf(Written(synced_a)), Processed)
  /\ IsSubseq(IdsOf(Written(synced_b)), Processed)
  /\ IsSubseq(IdsOf(Written(orphans)), Processed)

(* orphans of both candidates around a kept pair *)
C14_Witness ==
  /\ Returned /\ kept >= 1 /\ orphaned_a >= 1 /\ orphaned_b >= 1
  /\ Len(orphans) = 8
  /\ Written(orphans)[1][2] # Written(orphans)[2][2]

(* C15 Termination: every run that enters sync_paired_end_reads reaches   *)
(* the return and the five summary lines; each iteration consumes one     *)
(* reference record (one header per four lines) and the function returns  *)
(* only when as many iterations have run as the original file has         *)
(* records, whatever is left in the candidates.                           *)
C15_Termination ==
  /\ [][ /\ StepTaken => StepsDone' = StepsDone + 1
         /\ (pc = "loop" /\ pc' = "exit") =>
              /\ StepsDone = NumRecords(original)
              /\ stdout' = Summary
              /\ status' = <<0>>
       ]_vars
  /\ (pc = "opened") ~> Returned

(* returned after two iterations with a candidate record still pending *)
C15_Witness ==
  /\ Returned /\ NumRecords(original) = 2
  /\ ~ExhaustedA /\ ExhaustedB

(* C16 One-record lookahead: at every loop boundary and at return,        *)
(* next_record has been called total_a + 1 times on candidate-A and       *)
(* total_b + 1 times on candidate-B, each handle stands just after the    *)
(* pending record (or at end of file), and the pending record is the      *)
(* record that follows the total_a (total_b) records already classified.  *)
C16_OneRecordLookahead ==
  (InLoop \/ Returned)
    => /\ pulls_a = total_a + 1
       /\ pulls_b = total_b + 1
       /\ pos_a = Min(4 * (total_a + 1), Len(reads_a))
       /\ pos_b = Min(4 * (total_b + 1), Len(reads_b))
       /\ a = next_record(reads_a, Min(4 * total_a, Len(reads_a)))
       /\ b = next_record(reads_b, Min(4 * total_b, Len(reads_b)))

(* one record of A classified, both records of B classified *)
C16_Witness ==
  /\ InLoop /\ total_a = 1 /\ total_b = 2
  /\ ~ExhaustedA /\ ExhaustedB /\ a # EmptyRecord

(* C17 Counters match outputs: for every input, at every loop boundary    *)
(* and at return, synced-A and synced-B each hold kept records (of four   *)
(* lines) and orphans holds orphaned_a + orphaned_b records.              *)
C17_CountersMatchOutputs ==
  (InLoop \/ Returned)
    => /\ Len(synced_a) = 4 * kept
       /\ Len(synced_b) = 4 * kept
       /\ Len(Written(synced_a)) = kept
       /\ Len(Written(synced_b)) = kept
       /\ Len(orphans) = 4 * (orphaned_a + orphaned_b)
       /\ Len(Written(orphans)) = orphaned_a + orphaned_b

C17_Witness ==
  /\ Returned /\ kept = 2 /\ orphaned_a = 0 /\ orphaned_b = 1
  /\ Len(synced_a) = 8 /\ Len(orphans) = 4

(* the number of records one candidate gives up to a sequence of          *)
(* reference identifiers when it is walked alone: its cursor moves past   *)
(* its current record whenever the identifier equals that record's head   *)
RECURSIVE Solo(_, _, _)
Solo(ids, file, n) ==
  IF ids = <<>> THEN n
  ELSE Solo(Tail(ids), file,
            IF Head(ids) = head(next_record(file, Min(4 * n, Len(file))))
            THEN n + 1 ELSE n)

(* C18 Candidate independence: total_a and the ordered list of            *)
(* candidate-A records emitted are a function of the reference stream and *)
(* candidate-A alone (the walk of candidate-A on its own), so they are    *)
(* the same for any two candidate-B streams; in each iteration the record *)
(* under cursor a is emitted exactly when the identifier equals its head, *)
(* to synced-A or to orphans, and only that destination depends on        *)
(* candidate-B. Symmetrically for candidate-B.                            *)
C18_CandidateIndependence ==
  /\ []((InLoop \/ Returned)
          => /\ total_a = Solo(Processed, reads_a, 0)
             /\ total_b = Solo(Processed, reads_b, 0))
  /\ [][ StepTaken =>
           /\ IF ThisHeader = head(a)
              THEN \/ synced_a' = print_record(synced_a, a) /\ orphans' = orphans
                   \/ synced_a' = synced_a /\ orphans' = print_record(orphans, a)
              ELSE /\ synced_a' = synced_a
                   /\ orphans' = orphans \/ orphans' = print_record(orphans, b)
           /\ IF ThisHeader = head(b)
              THEN \/ synced_b' = print_record(synced_b, b) /\ orphans' = orphans
                   \/ synced_b' = synced_b /\ orphans' = print_record(orphans, b)
              ELSE /\ synced_b' = synced_b
                   /\ orphans' = orphans \/ orphans' = print_record(orphans, a)
       ]_vars

(* candidate-A has given up two records, one to each destination, while   *)
(* candidate-B has given up one and is at end of file                     *)
C18_Witness ==
  /\ Returned /\ total_a = 2 /\ kept = 1 /\ orphaned_a = 1
  /\ total_b = 1 /\ ExhaustedB /\ NumRecords(reads_b) = 1

====
